---------------------------- MODULE Spec2Model ----------------------------
(* Model of utilities/utils.py: the bounded subprocess harness             *)
(* (run_in_subprocess with its child entry point _wrapped_func) and the    *)
(* constant-backoff retry wrapper (run_with_retry).                        *)
(*                                                                         *)
(* A call of run_in_subprocess is a parent thread (pc) and a child process *)
(* (child).  The envelope channel is a multiprocessing queue: the child's  *)
(* put hands the envelope to a feeder thread that pickles it and writes it *)
(* into a pipe of bounded capacity; the child process does not exit before *)
(* the feeder has written everything, and the parent reads the pipe only   *)
(* after the child is no longer alive.                                     *)
EXTENDS Integers, Sequences, FiniteSets, TLC

(***************************************************************************)
(* Bounds of the model                                                     *)
(***************************************************************************)
\* capacity of the envelope pipe, in units of payload
PipeCap == 2
\* number of log records one unit of work emits at most
MaxLogs == 2
\* largest max_retries passed to run_with_retry
MaxRetries == 3
\* the value the model gives ModelId.MAX_REPO_ID_LENGTH, which is set outside
\* this file
MaxRepoIdLength == 4

\* the concurrent top-level calls (caller threads)
Calls == {1, 2}
\* the ttl arguments
TTLs == {1, 2}
\* the mode arguments: multiprocessing start methods
Modes == {"fork", "spawn"}

(***************************************************************************)
(* Python objects: values and exceptions                                   *)
(***************************************************************************)
\* classes derived from Exception
ExceptionTypes == {"ValueError", "RuntimeError", "CustomError", "Exception",
                   "TimeoutError", "IndexError", "OSError"}
\* classes derived from BaseException but not from Exception
BaseOnlyTypes == {"SystemExit"}
\* classes of plain values
PlainTypes == {"int", "str"}

\* payload sizes: one that fits the pipe and one that does not
Small == PipeCap \div 2
Large == PipeCap + 1

\* An object: its class, its text (str(o), a tuple of words), its pickled
\* size, how it pickles ("ok", "nodump": dumps fails, "noload": loads fails)
\* and whether it carries a __traceback__.
MkObj(type, text, size, pk, tb) ==
    [type |-> type, text |-> text, size |-> size, pk |-> pk, tb |-> tb]

NoObj == MkObj("none", <<>>, 0, "ok", FALSE)

\* isinstance(o, Exception)
IsException(o) == o.type \in ExceptionTypes
\* isinstance(o, BaseException)
IsBaseException(o) == o.type \in ExceptionTypes \cup BaseOnlyTypes

\* an exception raised with one message argument
MkExc(type, text) == MkObj(type, text, Small, "ok", TRUE)

\* what a unit of work can return
WorkValues ==
    {MkObj("int", <<t>>, Small, "ok", FALSE) : t \in {"v1", "v2"}}
    \cup {MkObj("str", <<"v1">>, Large, "ok", FALSE)}
    \cup {MkObj("int", <<"v1">>, Small, "nodump", FALSE)}
    \cup {MkObj("ValueError", <<"m1">>, Small, "ok", FALSE)}
    \cup {MkObj("SystemExit", <<"m1">>, Small, "ok", FALSE)}

\* what a unit of work can raise
WorkErrors ==
    {MkObj(k, <<t>>, Small, "ok", TRUE) :
        k \in {"ValueError", "RuntimeError", "SystemExit"}, t \in {"m1", "m2"}}
    \cup {MkObj("ValueError", <<"m1">>, Large, "ok", TRUE)}
    \cup {MkObj("CustomError", <<"m1">>, Small, "noload", TRUE)}

\* the expected_errors arguments
ExpectedSets == {{}, {"ValueError"}, {"SystemExit"}}


(***************************************************************************)
(* Envelope marshalling                                                    *)
(***************************************************************************)
\* traceback.format_exc() in the handler of e: a string naming e
FormatExc(e) ==
    MkObj("str", <<"Traceback", e.type>> \o e.text, Small, "ok", FALSE)

\* str(o)
Str(o) == o.text

\* the envelopes of _wrapped_func: (result,) and (e, stack_trace)
SuccessEnvelope(v) == <<v>>
FailureEnvelope(e) == <<e, FormatExc(e)>>

\* pickled size of an envelope
EnvSize(env) ==
    IF Len(env) = 1 THEN env[1].size ELSE env[1].size + env[2].size

\* The feeder thread's pickling of an envelope: it fails when a component
\* cannot be dumped; a traceback is not part of the pickled state.
CanDump(env) == \A i \in 1..Len(env) : env[i].pk # "nodump"
Dumps(env) == [i \in 1..Len(env) |-> [env[i] EXCEPT !.tb = FALSE]]

\* The parent's unpickling inside queue.get
CanLoad(bytes) == \A i \in 1..Len(bytes) : bytes[i].pk # "noload"
Loads(bytes) == bytes

\* outcomes of a call
NoOutcome == [kind |-> "none", obj |-> NoObj]
Return(v) == [kind |-> "return", obj |-> v]
Raise(e) == [kind |-> "raise", obj |-> e]

\* kind and message of an error, what a caller's except clause sees
SameError(a, b) == a.type = b.type /\ Str(a) = Str(b)

\* bt.logging.error(text): a record at ERROR severity
ERROR == 40
INFO == 20
DEBUG == INFO - 10
ErrorRecord(text) == [level |-> ERROR, text |-> text]

\* the errors run_in_subprocess raises itself
TimeoutErr(ttlv) ==
    MkExc("TimeoutError", <<"Failed to", "func", "after", ToString(ttlv), "seconds">>)
GetFailedErr ==
    MkExc("Exception", <<"Failed to get result from subprocess", "func">>)
IndexErr == MkExc("IndexError", <<"tuple index out of range">>)
WrappedBaseErr(e) ==
    MkExc("Exception", <<"BaseException raised in subprocess:">> \o Str(e))

\* Interpret with the expected_errors test applied to every error, the
\* non-ordinary ones too
InterpretBaseExpected(result, expected) ==
    IF IsException(result[1])
    THEN IF result[1].type \notin expected
         THEN IF Len(result) < 2
              THEN [outcome |-> Raise(IndexErr), logs |-> <<>>]
              ELSE [outcome |-> Raise(result[1]),
                    logs |-> <<ErrorRecord(<<"Exception in subprocess:">>
                                            \o result[2].text)>>]
         ELSE [outcome |-> Raise(result[1]), logs |-> <<>>]
    ELSE IF IsBaseException(result[1])
    THEN IF Len(result) < 2
         THEN [outcome |-> Raise(IndexErr), logs |-> <<>>]
         ELSE [outcome |-> Raise(WrappedBaseErr(result[1])),
               logs |-> IF result[1].type \in expected THEN <<>>
                        ELSE <<ErrorRecord(<<"BaseException in subprocess:">>
                                            \o result[2].text)>>]
    ELSE [outcome |-> Return(result[1]), logs |-> <<>>]

\* Interpret with an expected error swallowed instead of raised
InterpretSwallowExpected(result, expected) ==
    IF IsException(result[1])
    THEN IF result[1].type \notin expected
         THEN IF Len(result) < 2
              THEN [outcome |-> Raise(IndexErr), logs |-> <<>>]
              ELSE [outcome |-> Raise(result[1]),
                    logs |-> <<ErrorRecord(<<"Exception in subprocess:">>
                                            \o result[2].text)>>]
         ELSE [outcome |-> Return(NoObj), logs |-> <<>>]
    ELSE IF IsBaseException(result[1])
    THEN IF Len(result) < 2
         THEN [outcome |-> Raise(IndexErr), logs |-> <<>>]
         ELSE [outcome |-> Raise(WrappedBaseErr(result[1])),
               logs |-> <<ErrorRecord(<<"BaseException in subprocess:">>
                                       \o result[2].text)>>]
    ELSE [outcome |-> Return(result[1]), logs |-> <<>>]

\* Lines 145-157: what run_in_subprocess does with the tuple it read.
\* result[1] is Python's result[0]; reading result[2] of a 1-tuple raises
\* IndexError.
Interpret(result, expected) ==
    IF IsException(result[1])
    THEN IF result[1].type \notin expected
         THEN IF Len(result) < 2
              THEN [outcome |-> Raise(IndexErr), logs |-> <<>>]
              ELSE [outcome |-> Raise(result[1]),
                    logs |-> <<ErrorRecord(<<"Exception in subprocess:">>
                                            \o result[2].text)>>]
         ELSE [outcome |-> Raise(result[1]), logs |-> <<>>]
    ELSE IF IsBaseException(result[1])
    THEN IF Len(result) < 2
         THEN [outcome |-> Raise(IndexErr), logs |-> <<>>]
         ELSE [outcome |-> Raise(WrappedBaseErr(result[1])),
               logs |-> <<ErrorRecord(<<"BaseException in subprocess:">>
                                       \o result[2].text)>>]
    ELSE [outcome |-> Return(result[1]), logs |-> <<>>]


(***************************************************************************)
(* validate_hf_repo_id                                                     *)
(***************************************************************************)
\* the characters of a repo id: two letters and the separator
Chars == {"a", "b", "/"}
\* the repo_id arguments: every string up to one character longer than
\* ModelId.MAX_REPO_ID_LENGTH
RepoIds == UNION {[1..n -> Chars] : n \in 0..(MaxRepoIdLength + 1)}

\* Line 48: the literal the length is compared with
RepoIdLowerBound == 3

\* the results of validate_hf_repo_id
NoRepoResult == [kind |-> "none", namespace |-> <<>>, name |-> <<>>, error |-> NoObj]
RepoAccepted(ns, nm) == [kind |-> "return", namespace |-> ns, name |-> nm, error |-> NoObj]
RepoRejected(e) == [kind |-> "raise", namespace |-> <<>>, name |-> <<>>, error |-> e]

\* repo_id.split("/"): the pieces between the separators, empty ones too
RECURSIVE Split(_)
Split(s) ==
    IF \A i \in 1..Len(s) : s[i] # "/"
    THEN <<s>>
    ELSE LET i == CHOOSE k \in 1..Len(s) :
                      s[k] = "/" /\ \A j \in 1..(k - 1) : s[j] # "/"
         IN <<SubSeq(s, 1, i - 1)>> \o Split(SubSeq(s, i + 1, Len(s)))

\* Lines 45-59
ValidateHfRepoId(repo_id) ==
    IF repo_id = <<>>
    THEN RepoRejected(MkExc("ValueError", <<"Hugging Face repo id cannot be empty.">>))
    ELSE IF ~(RepoIdLowerBound < Len(repo_id) /\ Len(repo_id) <= MaxRepoIdLength)
    THEN RepoRejected(MkExc("ValueError",
             <<"Hugging Face repo id must be between 3 and",
               ToString(MaxRepoIdLength), "characters.">>))
    ELSE LET parts == Split(repo_id) IN
         IF Len(parts) # 2
         THEN RepoRejected(MkExc("ValueError",
                  <<"Hugging Face repo id must be in the format <org or user name>/<repo_name>.">>))
         ELSE RepoAccepted(parts[1], parts[2])


(***************************************************************************)
(* State                                                                   *)
(***************************************************************************)
VARIABLES
    \* ---- run_in_subprocess, per call ----
    pc,          \* the parent's position in run_in_subprocess
    mode,        \* the mode argument
    ttl,         \* the ttl argument
    expected,    \* the expected_errors argument
    hasLogQ,     \* log_queue is not None
    logq,        \* the records in log_queue
    listener,    \* "none", "created", "running" or "stopped"
    chan,        \* the envelope queue's pipe: [bytes, need, written]
    outcome,     \* what the call returned or raised
    errlog,      \* the records run_in_subprocess logged with bt.logging.error
    \* ---- the child process, per call ----
    child,       \* the child's position in _wrapped_func
    exitKind,    \* how the child ended
    sigterm,     \* a termination signal is pending
    forwarding,  \* the child's logger hands its records to log_queue
    emitted,     \* the records the unit of work emitted
    funcres,     \* what func() returned or raised
    \* ---- history of a call ----
    joined,      \* how the bounded join returned: "exit" or "expiry"
    atExpiry,    \* whether func() was running or finished when the bounded join expired
    got,         \* what queue.get found: "envelope", "unloadable" or "empty"
    \* ---- the caller's process ----
    menu,        \* the inputs the callers and the units of work draw from
    atexitReg,   \* the callbacks registered with atexit
    handlerLevel,\* level of each handler of the parent's logger
    delivered,   \* the records the parent's handlers handled
    \* ---- run_with_retry ----
    rpc,         \* position in run_with_retry
    maxRetries,  \* the max_retries argument
    attempt,     \* the loop variable
    calls,       \* what each invocation of func did, in order
    sleeps,      \* the delays taken, in order
    delaySeconds,\* the delay_seconds argument
    routcome,    \* what run_with_retry returned or raised
    subs,        \* run_with_retry around run_in_subprocess: how each call went
    \* ---- validate_hf_repo_id ----
    repoId,      \* the repo_id argument, a sequence of characters
    repoResult   \* what validate_hf_repo_id returned or raised

parentVars == <<pc, mode, ttl, expected, hasLogQ, listener, outcome, errlog>>
childVars == <<child, exitKind, sigterm, forwarding, emitted, funcres>>
histVars == <<joined, atExpiry, got>>
processVars == <<atexitReg, handlerLevel, menu>>
subVars == <<parentVars, childVars, histVars, processVars, logq, chan, delivered>>
retryVars == <<rpc, maxRetries, attempt, calls, sleeps, delaySeconds, routcome>>
composeVars == <<subs>>
repoVars == <<repoId, repoResult>>
vars == <<subVars, retryVars, composeVars, repoVars>>

\* the handlers of the parent's logger
Handlers == {"console"}
\* the levels a handler can be set to
HandlerLevels == {DEBUG, ERROR}
\* the severities and messages a unit of work logs
LogLevels == {DEBUG, INFO, ERROR}
LogTexts == {"l1", "l2"}

EmptyChan == [bytes |-> <<>>, need |-> 0, written |-> 0]

\* process.is_alive()
IsAlive(c) == child[c] \notin {"none", "exited"}

\* The inputs of a specification: the caller threads, the arguments each
\* passes, what the units of work return, raise and log, the calls in which
\* the environment can fail (no manager, no thread, no process, no
\* descriptors, a kill from outside) and the levels of the parent's handlers.
OneValue == {MkObj("int", <<"v1">>, Small, "ok", FALSE)}
OneError == {MkObj("ValueError", <<"m1">>, Small, "ok", TRUE)}

\* one call, every argument and every outcome of the unit of work
FullMenu ==
    [callers |-> {1}, faults |-> {1},
     modes |-> [c \in Calls |-> Modes], ttls |-> [c \in Calls |-> TTLs],
     expected |-> ExpectedSets, values |-> WorkValues, errors |-> WorkErrors,
     logs |-> [c \in Calls |-> 1], levels |-> {INFO}, texts |-> {"l1"},
     handlerLevels |-> {DEBUG}]

\* one call, few outcomes, every kind of log record
LogMenu ==
    [callers |-> {1}, faults |-> {1},
     modes |-> [c \in Calls |-> Modes], ttls |-> [c \in Calls |-> {1}],
     expected |-> {{}}, values |-> OneValue, errors |-> OneError,
     logs |-> [c \in Calls |-> MaxLogs], levels |-> LogLevels, texts |-> LogTexts,
     handlerLevels |-> HandlerLevels]

\* two concurrent calls in spawn mode: call 1 with the short ttl, call 2
\* with the long one
ConcMenu ==
    [callers |-> Calls, faults |-> {1},
     modes |-> [c \in Calls |-> {"spawn"}], ttls |-> [c \in Calls |-> {c}],
     expected |-> {{}}, values |-> OneValue, errors |-> OneError,
     logs |-> [c \in Calls |-> 1], levels |-> {INFO}, texts |-> {"l1"},
     handlerLevels |-> {DEBUG}]

InitWith(m) ==
    /\ menu = m
    /\ handlerLevel \in [Handlers -> m.handlerLevels]
    /\ pc = [c \in Calls |-> "idle"]
    /\ mode = [c \in Calls |-> "fork"]
    /\ ttl = [c \in Calls |-> 0]
    /\ expected = [c \in Calls |-> {}]
    /\ hasLogQ = [c \in Calls |-> FALSE]
    /\ logq = [c \in Calls |-> <<>>]
    /\ listener = [c \in Calls |-> "none"]
    /\ chan = [c \in Calls |-> EmptyChan]
    /\ outcome = [c \in Calls |-> NoOutcome]
    /\ errlog = [c \in Calls |-> <<>>]
    /\ child = [c \in Calls |-> "none"]
    /\ exitKind = [c \in Calls |-> "none"]
    /\ sigterm = [c \in Calls |-> FALSE]
    /\ forwarding = [c \in Calls |-> FALSE]
    /\ emitted = [c \in Calls |-> <<>>]
    /\ funcres = [c \in Calls |-> NoOutcome]
    /\ joined = [c \in Calls |-> "none"]
    /\ atExpiry = [c \in Calls |-> "none"]
    /\ got = [c \in Calls |-> "none"]
    /\ atexitReg = {}
    /\ delivered = {}
    /\ rpc = "idle"
    /\ maxRetries = 0
    /\ attempt = 0
    /\ calls = <<>>
    /\ sleeps = <<>>
    /\ delaySeconds = 0
    /\ routcome = NoOutcome
    /\ subs = <<>>
    /\ repoId = <<>>
    /\ repoResult = NoRepoResult

Init == InitWith(FullMenu)
InitLog == InitWith(LogMenu)
InitConc == InitWith(ConcMenu)


(***************************************************************************)
(* run_in_subprocess: the parent                                           *)
(***************************************************************************)
\* the other calls that are under way
Others(c) == {d \in Calls \ {c} : pc[d] # "idle"}

\* Lines 92-108: a caller thread enters run_in_subprocess(func, t, m, x).
\* Concurrent calls are given different ttl values.
Call(c, m, t, x) ==
    /\ pc[c] = "idle"
    /\ c \in menu.callers
    /\ m \in menu.modes[c] /\ t \in menu.ttls[c] /\ x \in menu.expected
    /\ \A d \in Others(c) : ttl[d] # t
    /\ mode' = [mode EXCEPT ![c] = m]
    /\ ttl' = [ttl EXCEPT ![c] = t]
    /\ expected' = [expected EXCEPT ![c] = x]
    /\ pc' = [pc EXCEPT ![c] = IF m = "spawn" THEN "setup" ELSE "launch"]
    /\ UNCHANGED <<hasLogQ, listener, outcome, errlog>>
    /\ UNCHANGED <<childVars, histVars, processVars, logq, chan, delivered>>
    /\ UNCHANGED <<retryVars, composeVars, repoVars>>

\* Lines 113-118: the bridge is created, started and registered with atexit
SetupOk(c) ==
    /\ pc[c] = "setup"
    /\ hasLogQ' = [hasLogQ EXCEPT ![c] = TRUE]
    /\ listener' = [listener EXCEPT ![c] = "running"]
    /\ atexitReg' = atexitReg \cup {c}
    /\ pc' = [pc EXCEPT ![c] = "launch"]
    /\ UNCHANGED <<mode, ttl, expected, outcome, errlog, handlerLevel, menu>>
    /\ UNCHANGED <<childVars, histVars, logq, chan, delivered>>
    /\ UNCHANGED <<retryVars, composeVars, repoVars>>

\* Lines 115, 119-120: creating the manager queue fails; only a warning
SetupNoQueue(c) ==
    /\ pc[c] = "setup"
    /\ c \in menu.faults
    /\ pc' = [pc EXCEPT ![c] = "launch"]
    /\ UNCHANGED <<mode, ttl, expected, hasLogQ, listener, outcome, errlog>>
    /\ UNCHANGED <<childVars, histVars, processVars, logq, chan, delivered>>
    /\ UNCHANGED <<retryVars, composeVars, repoVars>>

\* Lines 115-117, 119-120: the queue and the listener exist, but
\* listener.start() fails: the listener is never started nor registered
SetupNoStart(c) ==
    /\ pc[c] = "setup"
    /\ c \in menu.faults
    /\ hasLogQ' = [hasLogQ EXCEPT ![c] = TRUE]
    /\ listener' = [listener EXCEPT ![c] = "created"]
    /\ pc' = [pc EXCEPT ![c] = "launch"]
    /\ UNCHANGED <<mode, ttl, expected, outcome, errlog>>
    /\ UNCHANGED <<childVars, histVars, processVars, logq, chan, delivered>>
    /\ UNCHANGED <<retryVars, composeVars, repoVars>>

\* Lines 121-125: the child is started and the bounded join begins
Launch(c) ==
    /\ pc[c] = "launch"
    /\ child' = [child EXCEPT ![c] = "rlimit"]
    /\ pc' = [pc EXCEPT ![c] = "join"]
    /\ UNCHANGED <<mode, ttl, expected, hasLogQ, listener, outcome, errlog>>
    /\ UNCHANGED <<exitKind, sigterm, forwarding, emitted, funcres>>
    /\ UNCHANGED <<histVars, processVars, logq, chan, delivered>>
    /\ UNCHANGED <<retryVars, composeVars, repoVars>>

\* Line 123: process.start() raises (no process or no memory to be had);
\* the error leaves run_in_subprocess
LaunchFails(c) ==
    /\ pc[c] = "launch"
    /\ c \in menu.faults
    /\ outcome' = [outcome EXCEPT ![c] = Raise(MkExc("OSError", <<"cannot start">>))]
    /\ pc' = [pc EXCEPT ![c] = "done"]
    /\ UNCHANGED <<mode, ttl, expected, hasLogQ, listener, errlog>>
    /\ UNCHANGED <<childVars, histVars, processVars, logq, chan, delivered>>
    /\ UNCHANGED <<retryVars, composeVars, repoVars>>

\* Line 125: process.join(timeout=ttl) returns because the child has ended
JoinReturns(c) ==
    /\ pc[c] = "join"
    /\ ~IsAlive(c)
    /\ joined' = [joined EXCEPT ![c] = "exit"]
    /\ pc' = [pc EXCEPT ![c] = "teardown"]
    /\ UNCHANGED <<mode, ttl, expected, hasLogQ, listener, outcome, errlog>>
    /\ UNCHANGED <<childVars, atExpiry, got, processVars, logq, chan, delivered>>
    /\ UNCHANGED <<retryVars, composeVars, repoVars>>

\* Line 125: process.join(timeout=ttl) gives up: ttl seconds have passed
\* and the child is still alive.  Time is the order of the steps: what the
\* child did before this step it did within ttl, the rest after it.
JoinExpires(c) ==
    /\ pc[c] = "join"
    /\ IsAlive(c)
    /\ joined' = [joined EXCEPT ![c] = "expiry"]
    /\ atExpiry' = [atExpiry EXCEPT ![c] = IF funcres[c] = NoOutcome THEN "running" ELSE "finished"]
    /\ got' = got
    /\ pc' = [pc EXCEPT ![c] = "teardown"]
    /\ UNCHANGED <<mode, ttl, expected, hasLogQ, listener, outcome, errlog>>
    /\ UNCHANGED <<childVars, processVars, logq, chan, delivered>>
    /\ UNCHANGED <<retryVars, composeVars, repoVars>>

\* QueueListener.handle with respect_handler_level=True: the record goes to
\* every handler whose level admits it
Handle(c, rec) ==
    {[handler |-> h, call |-> c, n |-> rec.n, level |-> rec.level, text |-> rec.text] :
        h \in {g \in Handlers : rec.level >= handlerLevel[g]}}

\* HandleAll with the queued records dropped when the listener is stopped
HandleAllDropped(c, q) == {}

\* the records in a queue, all handled
HandleAll(c, q) == UNION {Handle(c, q[i]) : i \in 1..Len(q)}

\* Line 127: listener is None
TeardownNone(c) ==
    /\ pc[c] = "teardown"
    /\ listener[c] = "none"
    /\ pc' = [pc EXCEPT ![c] = "alive"]
    /\ UNCHANGED <<mode, ttl, expected, hasLogQ, listener, outcome, errlog>>
    /\ UNCHANGED <<childVars, histVars, processVars, logq, chan, delivered>>
    /\ UNCHANGED <<retryVars, composeVars, repoVars>>

\* Lines 127-130: listener.stop() lets the listener thread handle what is
\* queued, up to the sentinel, and joins it; then the atexit registration
\* is removed
TeardownStop(c) ==
    /\ pc[c] = "teardown"
    /\ listener[c] = "running"
    /\ delivered' = delivered \cup HandleAll(c, logq[c])
    /\ logq' = [logq EXCEPT ![c] = <<>>]
    /\ listener' = [listener EXCEPT ![c] = "stopped"]
    /\ atexitReg' = atexitReg \ {c}
    /\ pc' = [pc EXCEPT ![c] = "alive"]
    /\ UNCHANGED <<mode, ttl, expected, hasLogQ, outcome, errlog, handlerLevel, menu>>
    /\ UNCHANGED <<childVars, histVars, chan>>
    /\ UNCHANGED <<retryVars, composeVars, repoVars>>

\* TeardownNotStarted without the try of lines 128-132: the error of
\* listener.stop() leaves run_in_subprocess
TeardownNotStartedRaises(c) ==
    /\ pc[c] = "teardown"
    /\ listener[c] = "created"
    /\ outcome' = [outcome EXCEPT ![c] =
                     Raise(MkExc("Exception", <<"'NoneType' object has no attribute 'join'">>))]
    /\ pc' = [pc EXCEPT ![c] = "done"]
    /\ UNCHANGED <<mode, ttl, expected, hasLogQ, listener, errlog>>
    /\ UNCHANGED <<childVars, histVars, processVars, logq, chan, delivered>>
    /\ UNCHANGED <<retryVars, composeVars, repoVars>>

\* Lines 127-132: the listener was never started: stop() has no thread to
\* join (it raises, which is swallowed, or does nothing)
TeardownNotStarted(c) ==
    /\ pc[c] = "teardown"
    /\ listener[c] = "created"
    /\ pc' = [pc EXCEPT ![c] = "alive"]
    /\ UNCHANGED <<mode, ttl, expected, hasLogQ, listener, outcome, errlog>>
    /\ UNCHANGED <<childVars, histVars, processVars, logq, chan, delivered>>
    /\ UNCHANGED <<retryVars, composeVars, repoVars>>

\* Line 134: process.is_alive()
CheckAlive(c) ==
    /\ pc[c] = "alive"
    /\ pc' = [pc EXCEPT ![c] = IF IsAlive(c) THEN "terminate" ELSE "get"]
    /\ UNCHANGED <<mode, ttl, expected, hasLogQ, listener, outcome, errlog>>
    /\ UNCHANGED <<childVars, histVars, processVars, logq, chan, delivered>>
    /\ UNCHANGED <<retryVars, composeVars, repoVars>>

\* TerminateTargets with the signal sent to every child of the caller
TerminateEveryChild(c) == Calls

\* the children process.terminate() of call c signals
TerminateTargets(c) == {c}

\* Line 135: process.terminate() sends the signal to a child still alive
Terminate(c) ==
    /\ pc[c] = "terminate"
    /\ sigterm' = [d \in Calls |->
                     IF d \in TerminateTargets(c) /\ IsAlive(d) THEN TRUE ELSE sigterm[d]]
    /\ pc' = [pc EXCEPT ![c] = "join2"]
    /\ UNCHANGED <<mode, ttl, expected, hasLogQ, listener, outcome, errlog>>
    /\ UNCHANGED <<child, exitKind, forwarding, emitted, funcres>>
    /\ UNCHANGED <<histVars, processVars, logq, chan, delivered>>
    /\ UNCHANGED <<retryVars, composeVars, repoVars>>

\* Lines 136-137: the unbounded join returns once the child has ended, and
\* TimeoutError is raised
JoinKilled(c) ==
    /\ pc[c] = "join2"
    /\ ~IsAlive(c)
    /\ outcome' = [outcome EXCEPT ![c] = Raise(TimeoutErr(ttl[c]))]
    /\ pc' = [pc EXCEPT ![c] = "done"]
    /\ UNCHANGED <<mode, ttl, expected, hasLogQ, listener, errlog>>
    /\ UNCHANGED <<childVars, histVars, processVars, logq, chan, delivered>>
    /\ UNCHANGED <<retryVars, composeVars, repoVars>>

\* queue.get(block=False) finds a whole message in the pipe
Available(ch) == ch.need > 0 /\ ch.written = ch.need

\* ReadResult with an empty queue read as a result of None
ReadResultLenient(ch, x) ==
    IF Available(ch) /\ CanLoad(ch.bytes)
    THEN Interpret(Loads(ch.bytes), x)
    ELSE [outcome |-> Return(NoObj), logs |-> <<>>]

\* Lines 140-157: the envelope is read and interpreted.  A queue that is
\* empty, or a message that cannot be unpickled, raises inside the try.
ReadResult(ch, x) ==
    IF Available(ch) /\ CanLoad(ch.bytes)
    THEN Interpret(Loads(ch.bytes), x)
    ELSE [outcome |-> Raise(GetFailedErr), logs |-> <<>>]

GetResult(c) ==
    /\ pc[c] = "get"
    /\ LET r == ReadResult(chan[c], expected[c]) IN
         /\ outcome' = [outcome EXCEPT ![c] = r.outcome]
         /\ errlog' = [errlog EXCEPT ![c] = errlog[c] \o r.logs]
    /\ chan' = [chan EXCEPT ![c] = IF Available(chan[c]) THEN EmptyChan ELSE chan[c]]
    /\ got' = [got EXCEPT ![c] = IF ~Available(chan[c]) THEN "empty"
                                 ELSE IF CanLoad(chan[c].bytes) THEN "envelope"
                                 ELSE "unloadable"]
    /\ pc' = [pc EXCEPT ![c] = "done"]
    /\ UNCHANGED <<mode, ttl, expected, hasLogQ, listener>>
    /\ UNCHANGED <<childVars, joined, atExpiry, processVars, logq, delivered>>
    /\ UNCHANGED <<retryVars, composeVars, repoVars>>


(***************************************************************************)
(* _wrapped_func: the child process                                        *)
(***************************************************************************)
\* a step of the child leaves the parent's variables alone
ChildFrame ==
    /\ UNCHANGED <<parentVars, histVars, processVars, delivered>>
    /\ UNCHANGED <<retryVars, composeVars, repoVars>>

\* Line 68: the descriptor limit is raised
ChildRlimitOk(c) ==
    /\ child[c] = "rlimit"
    /\ child' = [child EXCEPT ![c] = "loghandler"]
    /\ UNCHANGED <<exitKind, sigterm, forwarding, emitted, funcres, logq, chan>>
    /\ ChildFrame

\* Line 68: setrlimit raises, outside the try: the error leaves
\* _wrapped_func and the process ends without an envelope
ChildRlimitFails(c) ==
    /\ child[c] = "rlimit"
    /\ c \in menu.faults
    /\ child' = [child EXCEPT ![c] = "exited"]
    /\ exitKind' = [exitKind EXCEPT ![c] = "error"]
    /\ UNCHANGED <<sigterm, forwarding, emitted, funcres, logq, chan>>
    /\ ChildFrame

\* Lines 70-81: with a log queue, the logger's handlers are replaced by a
\* QueueHandler at level INFO; without one, nothing is done
ChildLogSetup(c) ==
    /\ child[c] = "loghandler"
    /\ forwarding' = [forwarding EXCEPT ![c] = hasLogQ[c]]
    /\ child' = [child EXCEPT ![c] = "work"]
    /\ UNCHANGED <<exitKind, sigterm, emitted, funcres, logq, chan>>
    /\ ChildFrame

\* ChildLogSetupFails without the inner try: the error of the handler
\* installation reaches the except of line 86 and func() is never called
ChildLogSetupFatal(c) ==
    /\ child[c] = "loghandler"
    /\ c \in menu.faults
    /\ hasLogQ[c]
    /\ LET env == FailureEnvelope(MkExc("RuntimeError", <<"no handler">>)) IN
         chan' = [chan EXCEPT ![c] =
                    [bytes |-> Dumps(env), need |-> EnvSize(env), written |-> 0]]
    /\ child' = [child EXCEPT ![c] = "flush"]
    /\ UNCHANGED <<exitKind, sigterm, forwarding, emitted, funcres, logq>>
    /\ ChildFrame

\* Lines 74-83: installing the handler raises: printed, not raised
ChildLogSetupFails(c) ==
    /\ child[c] = "loghandler"
    /\ c \in menu.faults
    /\ hasLogQ[c]
    /\ child' = [child EXCEPT ![c] = "work"]
    /\ UNCHANGED <<exitKind, sigterm, forwarding, emitted, funcres, logq, chan>>
    /\ ChildFrame

\* Lines 80-81: the level of the queue handler and of the logger
ForwardLevel == INFO

\* QueueHandler.prepare: the record as it is put on the queue
Prepare(rec) == [n |-> rec.n, level |-> rec.level, text |-> rec.text]

\* logger.handle in the child: what a record adds to log_queue
Forwarded(c, rec) ==
    IF forwarding[c] /\ rec.level >= ForwardLevel THEN <<Prepare(rec)>> ELSE <<>>

\* Line 84: the unit of work logs a record
ChildLog(c, lvl, txt) ==
    /\ child[c] = "work"
    /\ Len(emitted[c]) < menu.logs[c]
    /\ lvl \in menu.levels /\ txt \in menu.texts
    /\ LET rec == [n |-> Len(emitted[c]) + 1, level |-> lvl, text |-> txt,
                   fwd |-> forwarding[c], bridge |-> listener[c]] IN
         /\ emitted' = [emitted EXCEPT ![c] = Append(emitted[c], rec)]
         /\ logq' = [logq EXCEPT ![c] = logq[c] \o Forwarded(c, rec)]
    /\ UNCHANGED <<child, exitKind, sigterm, forwarding, funcres, chan>>
    /\ ChildFrame

\* queue.put(env): the feeder thread pickles the envelope and starts to
\* write it into the pipe; an envelope that cannot be pickled is dropped
Put(env) ==
    IF CanDump(env)
    THEN [bytes |-> Dumps(env), need |-> EnvSize(env), written |-> 0]
    ELSE EmptyChan

\* Lines 84-85: func() returns v and the success envelope is put
ChildReturn(c, v) ==
    /\ child[c] = "work"
    /\ v \in menu.values
    /\ funcres' = [funcres EXCEPT ![c] = Return(v)]
    /\ chan' = [chan EXCEPT ![c] = Put(SuccessEnvelope(v))]
    /\ child' = [child EXCEPT ![c] = "flush"]
    /\ UNCHANGED <<exitKind, sigterm, forwarding, emitted, logq>>
    /\ ChildFrame

\* Lines 84, 86-89: func() raises e and the failure envelope is put
ChildRaise(c, e) ==
    /\ child[c] = "work"
    /\ e \in menu.errors
    /\ funcres' = [funcres EXCEPT ![c] = Raise(e)]
    /\ chan' = [chan EXCEPT ![c] = Put(FailureEnvelope(e))]
    /\ child' = [child EXCEPT ![c] = "flush"]
    /\ UNCHANGED <<exitKind, sigterm, forwarding, emitted, logq>>
    /\ ChildFrame

\* the feeder thread writes one more unit while the pipe has room; nobody
\* reads the pipe while the child is alive
ChildFlush(c) ==
    /\ child[c] = "flush"
    /\ chan[c].written < chan[c].need
    /\ chan[c].written < PipeCap
    /\ chan' = [chan EXCEPT ![c].written = @ + 1]
    /\ UNCHANGED <<child, exitKind, sigterm, forwarding, emitted, funcres, logq>>
    /\ ChildFrame

\* the process exits once the feeder thread has written everything
ChildExit(c) ==
    /\ child[c] = "flush"
    /\ chan[c].written = chan[c].need
    /\ child' = [child EXCEPT ![c] = "exited"]
    /\ exitKind' = [exitKind EXCEPT ![c] = "normal"]
    /\ UNCHANGED <<sigterm, forwarding, emitted, funcres, logq, chan>>
    /\ ChildFrame

\* the termination signal of line 135 ends the child
ChildTerminated(c) ==
    /\ sigterm[c]
    /\ IsAlive(c)
    /\ child' = [child EXCEPT ![c] = "exited"]
    /\ exitKind' = [exitKind EXCEPT ![c] = "sigterm"]
    /\ sigterm' = [sigterm EXCEPT ![c] = FALSE]
    /\ UNCHANGED <<forwarding, emitted, funcres, logq, chan>>
    /\ ChildFrame

\* the child is killed from outside (the OS) before it has put an envelope
ChildCrash(c) ==
    /\ child[c] \in {"rlimit", "loghandler", "work"}
    /\ c \in menu.faults
    /\ child' = [child EXCEPT ![c] = "exited"]
    /\ exitKind' = [exitKind EXCEPT ![c] = "oskill"]
    /\ sigterm' = [sigterm EXCEPT ![c] = FALSE]
    /\ UNCHANGED <<forwarding, emitted, funcres, logq, chan>>
    /\ ChildFrame

(***************************************************************************)
(* The listener thread                                                    *)
(***************************************************************************)
\* QueueListener._monitor: the listener thread handles the next record
ListenerDeliver(c) ==
    /\ listener[c] = "running"
    /\ logq[c] # <<>>
    /\ delivered' = delivered \cup Handle(c, Head(logq[c]))
    /\ logq' = [logq EXCEPT ![c] = Tail(logq[c])]
    /\ UNCHANGED <<parentVars, childVars, histVars, processVars, chan>>
    /\ UNCHANGED <<retryVars, composeVars, repoVars>>

(***************************************************************************)
(* run_with_retry                                                          *)
(***************************************************************************)
\* the max_retries and delay_seconds arguments
RetryCounts == (0 - 1)..MaxRetries
Delays == {0, 1}
\* what the retried function returns and raises
RetryValues == {MkObj("int", <<t>>, Small, "ok", FALSE) : t \in {"v1", "v2"}}
RetryErrors ==
    {MkExc(k, <<t>>) : k \in {"ValueError", "RuntimeError"}, t \in {"m1", "m2"}}
    \cup {MkExc("SystemExit", <<"m1">>)}

UnexpectedStateErr ==
    MkExc("Exception",
          <<"Unexpected state: Ran with retry but didn't hit a terminal state">>)

\* a step of run_with_retry leaves the subprocess harness alone
RetryFrame == UNCHANGED <<subVars, composeVars, repoVars>>

\* RangeHasNext for a range that always has a first element
RangeAtLeastOne(a, mr) == a = 0 \/ a + 1 <= mr

\* Line 254: range(1, max_retries + 1) has a next element after a
RangeHasNext(a, mr) == a + 1 <= mr

\* Lines 241-254, 263: run_with_retry(func, mr, d) is entered; an empty
\* range falls through to the final raise
RetryCall(mr, d) ==
    /\ rpc = "idle"
    /\ maxRetries' = mr
    /\ delaySeconds' = d
    /\ IF RangeHasNext(0, mr)
       THEN /\ attempt' = 1
            /\ rpc' = "try"
            /\ routcome' = routcome
       ELSE /\ attempt' = 0
            /\ rpc' = "done"
            /\ routcome' = Raise(UnexpectedStateErr)
    /\ UNCHANGED <<calls, sleeps>>
    /\ RetryFrame

\* AfterReturn with the loop going on after a success
AfterReturnContinue == "sleep"

\* Line 256: where a returning func() leaves run_with_retry
AfterReturn == "done"

\* Line 256: func() returns v, which is returned at once
RetryInvokeReturns(v) ==
    /\ rpc = "try"
    /\ calls' = Append(calls, Return(v))
    /\ IF AfterReturn = "done"
       THEN /\ routcome' = Return(v)
            /\ rpc' = "done"
       ELSE /\ routcome' = routcome
            /\ rpc' = "sleep"
    /\ UNCHANGED <<maxRetries, attempt, sleeps, delaySeconds>>
    /\ RetryFrame

\* AfterError giving up one attempt early
AfterErrorEarly(a, mr) == IF a + 1 >= mr THEN "raise" ELSE "sleep"

\* Lines 257-262: an Exception at attempt a of mr is raised again at the
\* last attempt and slept on otherwise
AfterError(a, mr) == IF a = mr THEN "raise" ELSE "sleep"

\* Line 260: the error raised at the last attempt, e being the one caught
Reraised(e, seen) == e

\* RetryInvokeRaises with every error caught, the non-ordinary ones too
RetryCatchesAll(e) ==
    /\ rpc = "try"
    /\ calls' = Append(calls, Raise(e))
    /\ IF AfterError(attempt, maxRetries) = "sleep"
       THEN /\ rpc' = "sleep"
            /\ routcome' = routcome
       ELSE /\ rpc' = "done"
            /\ routcome' = Raise(Reraised(e, calls'))
    /\ UNCHANGED <<maxRetries, attempt, sleeps, delaySeconds>>
    /\ RetryFrame

\* Lines 256-262: func() raises e.  Only an Exception is caught.
RetryInvokeRaises(e) ==
    /\ rpc = "try"
    /\ calls' = Append(calls, Raise(e))
    /\ IF IsException(e) /\ AfterError(attempt, maxRetries) = "sleep"
       THEN /\ rpc' = "sleep"
            /\ routcome' = routcome
       ELSE /\ rpc' = "done"
            /\ routcome' = Raise(IF IsException(e) THEN Reraised(e, calls') ELSE e)
    /\ UNCHANGED <<maxRetries, attempt, sleeps, delaySeconds>>
    /\ RetryFrame

\* RetrySleep with a delay that grows with the attempt
RetrySleepBackoff ==
    /\ rpc = "sleep"
    /\ sleeps' = Append(sleeps, delaySeconds * attempt)
    /\ IF RangeHasNext(attempt, maxRetries)
       THEN /\ attempt' = attempt + 1
            /\ rpc' = "try"
            /\ routcome' = routcome
       ELSE /\ attempt' = attempt
            /\ rpc' = "done"
            /\ routcome' = Raise(UnexpectedStateErr)
    /\ UNCHANGED <<maxRetries, calls, delaySeconds>>
    /\ RetryFrame

\* Lines 262, 254, 263: time.sleep(delay_seconds), then the next attempt,
\* or the final raise when the range is exhausted
RetrySleep ==
    /\ rpc = "sleep"
    /\ sleeps' = Append(sleeps, delaySeconds)
    /\ IF RangeHasNext(attempt, maxRetries)
       THEN /\ attempt' = attempt + 1
            /\ rpc' = "try"
            /\ routcome' = routcome
       ELSE /\ attempt' = attempt
            /\ rpc' = "done"
            /\ routcome' = Raise(UnexpectedStateErr)
    /\ UNCHANGED <<maxRetries, calls, delaySeconds>>
    /\ RetryFrame

NextRetry ==
    \/ \E mr \in RetryCounts, d \in Delays : RetryCall(mr, d)
    \/ \E v \in RetryValues : RetryInvokeReturns(v)
    \/ \E e \in RetryErrors : RetryInvokeRaises(e)
    \/ RetrySleep

SpecRetry == Init /\ [][NextRetry]_vars

(***************************************************************************)
(* validate_hf_repo_id, called                                             *)
(***************************************************************************)
\* Lines 38-59: validate_hf_repo_id(s) is called and returns or raises
Validate(s) ==
    /\ repoResult = NoRepoResult
    /\ repoId' = s
    /\ repoResult' = ValidateHfRepoId(s)
    /\ UNCHANGED <<subVars, retryVars, composeVars>>

NextRepo == \E s \in RepoIds : Validate(s)

SpecRepo == Init /\ [][NextRepo]_vars

Next ==
    \/ \E c \in Calls : \E m \in Modes, t \in TTLs, x \in ExpectedSets : Call(c, m, t, x)
    \/ \E c \in Calls : SetupOk(c)
    \/ \E c \in Calls : SetupNoQueue(c)
    \/ \E c \in Calls : SetupNoStart(c)
    \/ \E c \in Calls : Launch(c)
    \/ \E c \in Calls : LaunchFails(c)
    \/ \E c \in Calls : JoinReturns(c)
    \/ \E c \in Calls : JoinExpires(c)
    \/ \E c \in Calls : TeardownNone(c)
    \/ \E c \in Calls : TeardownStop(c)
    \/ \E c \in Calls : TeardownNotStarted(c)
    \/ \E c \in Calls : CheckAlive(c)
    \/ \E c \in Calls : Terminate(c)
    \/ \E c \in Calls : JoinKilled(c)
    \/ \E c \in Calls : GetResult(c)
    \/ \E c \in Calls : ChildRlimitOk(c)
    \/ \E c \in Calls : ChildRlimitFails(c)
    \/ \E c \in Calls : ChildLogSetup(c)
    \/ \E c \in Calls : ChildLogSetupFails(c)
    \/ \E c \in Calls : \E lvl \in LogLevels, txt \in LogTexts : ChildLog(c, lvl, txt)
    \/ \E c \in Calls : \E v \in WorkValues : ChildReturn(c, v)
    \/ \E c \in Calls : \E e \in WorkErrors : ChildRaise(c, e)
    \/ \E c \in Calls : ChildFlush(c)
    \/ \E c \in Calls : ChildExit(c)
    \/ \E c \in Calls : ChildTerminated(c)
    \/ \E c \in Calls : ChildCrash(c)
    \/ \E c \in Calls : ListenerDeliver(c)

Spec == Init /\ [][Next]_vars
SpecLog == InitLog /\ [][Next]_vars
SpecConc == InitConc /\ [][Next]_vars


(***************************************************************************)
(* run_with_retry around run_in_subprocess                                 *)
(***************************************************************************)
\* run_with_retry(functools.partial(run_in_subprocess, func, ttl, mode)):
\* every attempt is one call of run_in_subprocess by the same thread, with
\* the same arguments.

\* the max_retries arguments of the composed call
ComposedCounts == 1..MaxRetries

\* the inputs of the composed call in mode m: one thread, one ttl, a unit of
\* work that returns or raises at any time or not at all
ComposedMenu(m) ==
    [callers |-> {1}, faults |-> {1},
     modes |-> [c \in Calls |-> {m}], ttls |-> [c \in Calls |-> {1}],
     expected |-> {{}}, values |-> OneValue, errors |-> OneError,
     logs |-> [c \in Calls |-> 1], levels |-> {INFO}, texts |-> {"l1"},
     handlerLevels |-> {DEBUG}]

InitComposed == \E m \in Modes : InitWith(ComposedMenu(m))

\* how a call of run_in_subprocess went: whether its child was started,
\* whether the unit of work was still running when the bounded join expired
\* (and nothing but the work itself or the parent ended the child), and
\* whether the child was alive when the call returned or raised
SubHistory(c) ==
    [started |-> child[c] # "none",
     overran |-> /\ joined[c] = "expiry" /\ atExpiry[c] = "running"
                 /\ exitKind[c] \in {"normal", "sigterm"},
     killed |-> exitKind[c] = "sigterm",
     alive |-> IsAlive(c)]

\* Lines 256, 92-108: func() is called, which enters run_in_subprocess with
\* a new queue, a new bridge and a new process handle (what the handlers
\* got from the previous call is no longer kept under this call's name)
ComposedInvoke(c, m, t, x) ==
    /\ rpc = "try"
    /\ pc[c] \in {"idle", "done"}
    /\ c \in menu.callers
    /\ m \in menu.modes[c] /\ t \in menu.ttls[c] /\ x \in menu.expected
    /\ rpc' = "sub"
    /\ mode' = [mode EXCEPT ![c] = m]
    /\ ttl' = [ttl EXCEPT ![c] = t]
    /\ expected' = [expected EXCEPT ![c] = x]
    /\ pc' = [pc EXCEPT ![c] = IF m = "spawn" THEN "setup" ELSE "launch"]
    /\ hasLogQ' = [hasLogQ EXCEPT ![c] = FALSE]
    /\ logq' = [logq EXCEPT ![c] = <<>>]
    /\ listener' = [listener EXCEPT ![c] = "none"]
    /\ chan' = [chan EXCEPT ![c] = EmptyChan]
    /\ outcome' = [outcome EXCEPT ![c] = NoOutcome]
    /\ errlog' = [errlog EXCEPT ![c] = <<>>]
    /\ child' = [child EXCEPT ![c] = "none"]
    /\ exitKind' = [exitKind EXCEPT ![c] = "none"]
    /\ sigterm' = [sigterm EXCEPT ![c] = FALSE]
    /\ forwarding' = [forwarding EXCEPT ![c] = FALSE]
    /\ emitted' = [emitted EXCEPT ![c] = <<>>]
    /\ funcres' = [funcres EXCEPT ![c] = NoOutcome]
    /\ joined' = [joined EXCEPT ![c] = "none"]
    /\ atExpiry' = [atExpiry EXCEPT ![c] = "none"]
    /\ got' = [got EXCEPT ![c] = "none"]
    /\ delivered' = {r \in delivered : r.call # c}
    /\ UNCHANGED <<processVars, repoVars, composeVars>>
    /\ UNCHANGED <<maxRetries, attempt, calls, sleeps, delaySeconds, routcome>>

\* Lines 256-262: run_in_subprocess returns or raises, and run_with_retry
\* goes on as after any func()
ComposedEnds(c) ==
    /\ rpc = "sub"
    /\ pc[c] = "done"
    /\ calls' = Append(calls, outcome[c])
    /\ subs' = Append(subs, SubHistory(c))
    /\ IF outcome[c].kind = "return"
       THEN IF AfterReturn = "done"
            THEN /\ routcome' = outcome[c]
                 /\ rpc' = "done"
            ELSE /\ routcome' = routcome
                 /\ rpc' = "sleep"
       ELSE IF IsException(outcome[c].obj) /\ AfterError(attempt, maxRetries) = "sleep"
            THEN /\ rpc' = "sleep"
                 /\ routcome' = routcome
            ELSE /\ rpc' = "done"
                 /\ routcome' = Raise(IF IsException(outcome[c].obj)
                                      THEN Reraised(outcome[c].obj, calls')
                                      ELSE outcome[c].obj)
    /\ UNCHANGED <<maxRetries, attempt, sleeps, delaySeconds>>
    /\ UNCHANGED <<subVars, repoVars>>

NextComposed ==
    \/ \E mr \in ComposedCounts, d \in Delays : RetryCall(mr, d)
    \/ \E c \in Calls : \E m \in Modes, t \in TTLs, x \in ExpectedSets : ComposedInvoke(c, m, t, x)
    \/ \E c \in Calls : ComposedEnds(c)
    \/ RetrySleep
    \/ \E c \in Calls : SetupOk(c)
    \/ \E c \in Calls : SetupNoQueue(c)
    \/ \E c \in Calls : SetupNoStart(c)
    \/ \E c \in Calls : Launch(c)
    \/ \E c \in Calls : LaunchFails(c)
    \/ \E c \in Calls : JoinReturns(c)
    \/ \E c \in Calls : JoinExpires(c)
    \/ \E c \in Calls : TeardownNone(c)
    \/ \E c \in Calls : TeardownStop(c)
    \/ \E c \in Calls : TeardownNotStarted(c)
    \/ \E c \in Calls : CheckAlive(c)
    \/ \E c \in Calls : Terminate(c)
    \/ \E c \in Calls : JoinKilled(c)
    \/ \E c \in Calls : GetResult(c)
    \/ \E c \in Calls : ChildRlimitOk(c)
    \/ \E c \in Calls : ChildRlimitFails(c)
    \/ \E c \in Calls : ChildLogSetup(c)
    \/ \E c \in Calls : ChildLogSetupFails(c)
    \/ \E c \in Calls : \E lvl \in LogLevels, txt \in LogTexts : ChildLog(c, lvl, txt)
    \/ \E c \in Calls : \E v \in WorkValues : ChildReturn(c, v)
    \/ \E c \in Calls : \E e \in WorkErrors : ChildRaise(c, e)
    \/ \E c \in Calls : ChildFlush(c)
    \/ \E c \in Calls : ChildExit(c)
    \/ \E c \in Calls : ChildTerminated(c)
    \/ \E c \in Calls : ChildCrash(c)
    \/ \E c \in Calls : ListenerDeliver(c)

SpecComposed == InitComposed /\ [][NextComposed]_vars


(***************************************************************************)
(* Properties of run_in_subprocess                                         *)
(***************************************************************************)
Done(c) == pc[c] = "done"

\* the child of call c ran to its normal end and the bounded join returned
\* because of that: the unit of work finished within ttl
EndedInTime(c) == joined[c] = "exit" /\ exitKind[c] = "normal"

\* func() of call c returned a value / raised an error
Returned(c) == funcres[c].kind = "return"
Raised(c) == funcres[c].kind = "raise"

\* C1: a unit of work that completes within ttl and returns v makes
\* run_in_subprocess return v unchanged, whatever v is (stated for the
\* values that pickle and fit the pipe, an error object among them).
C1_RoundTrip ==
    \A c \in Calls :
        (Done(c) /\ EndedInTime(c) /\ Returned(c) /\ funcres[c].obj.pk = "ok")
            => outcome[c] = Return(funcres[c].obj)

\* C1, the payload larger than the pipe: func() returned before the bounded
\* join expired, and the call returns the value.
C1_LargePayload ==
    \A c \in Calls :
        (Done(c) /\ Returned(c) /\ funcres[c].obj.size = Large
                 /\ joined[c] = "expiry" /\ atExpiry[c] = "finished")
            => outcome[c] = Return(funcres[c].obj)

\* C2: a unit of work still running when the bounded join expires makes
\* run_in_subprocess raise TimeoutError, with the child ended and no
\* envelope read (stated for a child that nothing but the parent ends and
\* a result that pickles and is no error object returned as a value).
C2_TimeoutOnOverrun ==
    \A c \in Calls :
        (Done(c) /\ joined[c] = "expiry" /\ atExpiry[c] = "running"
                 /\ exitKind[c] \notin {"error", "oskill"}
                 /\ funcres[c].obj.pk = "ok"
                 /\ ~(Returned(c) /\ IsBaseException(funcres[c].obj)))
            => /\ outcome[c] = Raise(TimeoutErr(ttl[c]))
               /\ ~IsAlive(c)
               /\ got[c] = "none"

\* C3: a unit of work that raises an ordinary error within ttl makes
\* run_in_subprocess raise an error of the same kind with the same message.
C3_SameError ==
    \A c \in Calls :
        (Done(c) /\ EndedInTime(c) /\ Raised(c) /\ IsException(funcres[c].obj))
            => /\ outcome[c].kind = "raise"
               /\ SameError(outcome[c].obj, funcres[c].obj)

\* the child of call c ended without an envelope in the pipe
NoEnvelopeWritten(c) ==
    \/ exitKind[c] \in {"error", "oskill"}
    \/ Returned(c) /\ ~CanDump(SuccessEnvelope(funcres[c].obj))
    \/ Raised(c) /\ ~CanDump(FailureEnvelope(funcres[c].obj))

\* C4: when the child is found ended and the queue holds no envelope, the
\* call raises the internal-state error and returns no value, whatever
\* ended the child.
C4_MissingEnvelope ==
    \A c \in Calls :
        /\ (Done(c) /\ got[c] # "none" /\ NoEnvelopeWritten(c)) => got[c] = "empty"
        /\ got[c] = "empty" => (Done(c) /\ outcome[c] = Raise(GetFailedErr))

C4_Witness ==
    \E c \in Calls :
        /\ Done(c) /\ got[c] = "empty" /\ joined[c] = "exit"
        /\ exitKind[c] = "error" /\ outcome[c] = Raise(GetFailedErr)

\* the failure envelope of call c was read and carries a non-ordinary error
ReadBaseFailure(c) ==
    /\ Done(c) /\ got[c] = "envelope" /\ Raised(c)
    /\ ~IsException(funcres[c].obj) /\ IsBaseException(funcres[c].obj)

\* the last words of a text
Suffix(text, n) == SubSeq(text, Len(text) - n + 1, Len(text))

\* C5: a failure envelope with a non-ordinary error is always logged at
\* error severity, expected or not, and a generic Exception carrying the
\* error's text is raised, never the original kind.
C5_BaseException ==
    \A c \in Calls :
        ReadBaseFailure(c) =>
            LET e == funcres[c].obj IN
            /\ errlog[c] = <<ErrorRecord(<<"BaseException in subprocess:">>
                                          \o FormatExc(e).text)>>
            /\ outcome[c].kind = "raise"
            /\ outcome[c].obj.type = "Exception"
            /\ outcome[c].obj.type # e.type
            /\ Suffix(Str(outcome[c].obj), Len(Str(e))) = Str(e)

C5_Witness ==
    \E c \in Calls : ReadBaseFailure(c) /\ funcres[c].obj.type \in expected[c]

\* the failure envelope of call c was read and carries an ordinary error
ReadOrdinaryFailure(c) ==
    /\ Done(c) /\ got[c] = "envelope" /\ Raised(c)
    /\ IsException(funcres[c].obj)

\* C6: a failure envelope with an ordinary error is logged at error severity
\* exactly when the error's kind is not expected, and the original error is
\* raised in both cases.
C6_ExpectedErrors ==
    \A c \in Calls :
        ReadOrdinaryFailure(c) =>
            LET e == funcres[c].obj IN
            /\ outcome[c].kind = "raise"
            /\ SameError(outcome[c].obj, e)
            /\ (e.type \notin expected[c]) <=>
                   (errlog[c] = <<ErrorRecord(<<"Exception in subprocess:">>
                                               \o FormatExc(e).text)>>)
            /\ (e.type \in expected[c]) <=> (errlog[c] = <<>>)

C6_Witness ==
    \E c \in Calls :
        ReadOrdinaryFailure(c) /\ funcres[c].obj.type \in expected[c] /\ errlog[c] = <<>>


(***************************************************************************)
(* Properties of run_with_retry                                            *)
(***************************************************************************)
\* every invocation so far raised an ordinary error
AllOrdinaryFailures(s) ==
    \A i \in 1..Len(s) : s[i].kind = "raise" /\ IsException(s[i].obj)

\* C7: with max_retries >= 1, ordinary failures followed by a success at
\* invocation k <= max_retries end the call at once with that value: k
\* invocations, k - 1 delays, and the k-th invocation is not given up on.
C7_SuccessStops ==
    /\ (calls # <<>> /\ calls[Len(calls)].kind = "return") =>
           /\ rpc = "done"
           /\ routcome = calls[Len(calls)]
           /\ Len(calls) <= maxRetries
           /\ AllOrdinaryFailures(SubSeq(calls, 1, Len(calls) - 1))
           /\ Len(sleeps) = Len(calls) - 1
    /\ (maxRetries >= 1 /\ AllOrdinaryFailures(calls) /\ Len(calls) < maxRetries) =>
           rpc \in {"try", "sleep"}

C7_Witness ==
    /\ rpc = "done" /\ maxRetries = 3 /\ Len(calls) = 3
    /\ AllOrdinaryFailures(SubSeq(calls, 1, 2))
    /\ calls[3].kind = "return" /\ routcome = calls[3]
    /\ Len(sleeps) = 2

\* C8: with max_retries >= 1 and a function that raises an ordinary error
\* every time, the function is invoked exactly max_retries times and the
\* error of the last invocation is raised, as it is.
C8_LastError ==
    /\ (rpc = "done" /\ maxRetries >= 1 /\ AllOrdinaryFailures(calls)) =>
           /\ Len(calls) = maxRetries
           /\ routcome = Raise(calls[maxRetries].obj)
    /\ (maxRetries >= 1 /\ AllOrdinaryFailures(calls) /\ Len(calls) = maxRetries) =>
           rpc = "done"

C8_Witness ==
    /\ rpc = "done" /\ maxRetries = 2 /\ Len(calls) = 2
    /\ AllOrdinaryFailures(calls)
    /\ calls[1].obj.type # calls[2].obj.type
    /\ routcome = Raise(calls[2].obj)


(***************************************************************************)
(* Properties of concurrent calls and of the log bridge                    *)
(***************************************************************************)
\* all that belongs to call c: its arguments, its parent thread, its child,
\* its envelope channel, its bridge and what its bridge delivered
CallState(c) ==
    <<pc[c], mode[c], ttl[c], expected[c], outcome[c], errlog[c],
      child[c], exitKind[c], sigterm[c], forwarding[c], emitted[c], funcres[c],
      chan[c], joined[c], atExpiry[c], got[c],
      hasLogQ[c], logq[c], listener[c], c \in atexitReg,
      {r \in delivered : r.call = c}>>

\* a call times out only when its own bounded join expired, and a child is
\* ended by a signal only after its own parent found it alive
OwnTimeout(c) ==
    /\ (outcome[c].kind = "raise" /\ outcome[c].obj.type = "TimeoutError") =>
           (joined[c] = "expiry" /\ outcome[c].obj = TimeoutErr(ttl[c]))
    /\ (sigterm[c] \/ exitKind[c] = "sigterm") => pc[c] \in {"join2", "done"}
    /\ (listener[c] = "stopped") => pc[c] \in {"alive", "terminate", "join2", "get", "done"}

\* C9: concurrent calls are independent: a step that changes what belongs
\* to one call (its Timeout, the kill of its child, the teardown of its
\* bridge among them) changes nothing that belongs to the other, and each
\* call times out, loses its child and loses its bridge by its own steps only.
C9_Independent ==
    /\ [](\A c \in Calls : OwnTimeout(c))
    /\ [][\A c \in Calls : \A d \in Calls \ {c} :
             (CallState(c)' # CallState(c)) => (CallState(d)' = CallState(d))]_vars

\* call 1 is in its timeout path, bridge stopped and child signalled, while
\* call 2, with the other ttl, runs its work with its bridge up
C9_Witness ==
    /\ pc[1] = "join2" /\ sigterm[1] /\ listener[1] = "stopped" /\ 1 \notin atexitReg
    /\ pc[2] = "join" /\ child[2] = "work" /\ listener[2] = "running" /\ 2 \in atexitReg
    /\ ttl[1] # ttl[2]

\* record i of call c reached handler h with its level and text
Reached(c, i, h) ==
    [handler |-> h, call |-> c, n |-> i,
     level |-> emitted[c][i].level, text |-> emitted[c][i].text] \in delivered

\* C10: in spawn mode every record the unit of work emits, at any severity,
\* has reached the parent's handlers (those whose level admits it) with its
\* severity and text when the call returns or raises (stated for a call
\* whose bridge was started and whose child installed the queue handler).
C10_AllDelivered ==
    \A c \in Calls :
        (Done(c) /\ mode[c] = "spawn" /\ listener[c] = "stopped" /\ forwarding[c]) =>
            \A i \in 1..Len(emitted[c]) : \A h \in Handlers :
                emitted[c][i].level >= handlerLevel[h] => Reached(c, i, h)

\* C10 as amended: once the bridge of a call is stopped (hence when the call
\* returns or raises), every record of severity INFO or above that the unit
\* of work emitted through the installed queue handler while the bridge was
\* running has reached every handler whose level admits it, and whatever
\* reached a handler is a record the work emitted, with its severity and
\* text.
C10_ForwardedDelivered ==
    \A c \in Calls :
        /\ listener[c] = "stopped" =>
               \A i \in 1..Len(emitted[c]) : \A h \in Handlers :
                   (/\ emitted[c][i].fwd
                    /\ emitted[c][i].bridge = "running"
                    /\ emitted[c][i].level >= INFO
                    /\ emitted[c][i].level >= handlerLevel[h]) => Reached(c, i, h)
        /\ \A r \in delivered :
               r.call = c =>
                   /\ r.n \in 1..Len(emitted[c])
                   /\ Reached(c, r.n, r.handler)
                   /\ r.level >= INFO

C10_Witness ==
    \E c \in Calls :
        /\ Done(c) /\ mode[c] = "spawn" /\ listener[c] = "stopped"
        /\ Len(emitted[c]) = 2
        /\ emitted[c][1].level = ERROR /\ emitted[c][2].level = INFO
        /\ emitted[c][1].text # emitted[c][2].text
        /\ \A h \in Handlers : handlerLevel[h] = DEBUG /\ Reached(c, 1, h) /\ Reached(c, 2, h)


(***************************************************************************)
(* Properties of the bridge's lifecycle and of the child entry point      *)
(***************************************************************************)
\* the bridge of call c was started: listener.start() returned
BridgeStarted(c) == listener[c] \in {"running", "stopped"}

\* C11: the bridge exists only in spawn mode, never in fork mode; and a
\* spawn-mode call whose bridge was started has its listener stopped and its
\* atexit registration removed when the call completes, however it
\* completes (a failure to start the child included).
C11_BridgeLifecycle ==
    \A c \in Calls :
        /\ (pc[c] # "idle" /\ mode[c] = "fork") =>
               (listener[c] = "none" /\ ~hasLogQ[c] /\ c \notin atexitReg)
        /\ (Done(c) /\ mode[c] = "spawn" /\ BridgeStarted(c)) =>
               (listener[c] = "stopped" /\ c \notin atexitReg)

\* the child of call c ended by itself: neither the parent's signal nor a
\* kill from outside ended it
EndedByItself(c) == child[c] = "exited" /\ exitKind[c] \in {"normal", "error"}

\* an envelope of call c reached the envelope channel
EnvelopeDelivered(c) ==
    \/ Available(chan[c])
    \/ got[c] \in {"envelope", "unloadable"}

\* C12: a child that the parent does not kill delivers an envelope before it
\* exits: no error of the entry point (raising the descriptor limit,
\* installing the log handler, the work, serializing the envelope) escapes
\* without one.
C12_OneEnvelope ==
    \A c \in Calls : EndedByItself(c) => EnvelopeDelivered(c)

\* C12, the serialization case: a child that ran the work and ended normally
\* has delivered an envelope.
C12_Serialization ==
    \A c \in Calls :
        (EndedByItself(c) /\ exitKind[c] = "normal") => EnvelopeDelivered(c)

\* raising the descriptor limit failed in the child of call c
RlimitFailed(c) == exitKind[c] = "error"

\* C13: a child that fails to raise its descriptor limit still runs the
\* unit of work, and the call delivers the work's own outcome: its value
\* returned, or its error raised.
C13_RlimitNonFatal ==
    \A c \in Calls :
        (Done(c) /\ RlimitFailed(c)) =>
            /\ funcres[c] # NoOutcome
            /\ Returned(c) => outcome[c] = Return(funcres[c].obj)
            /\ Raised(c) => outcome[c].kind = "raise"

\* setting up log forwarding failed in call c: in the parent (no queue, or a
\* listener that did not start) or in the child (no queue handler installed
\* although a queue was passed; seen on a child that ran to its normal end)
ParentLogSetupFailed(c) ==
    mode[c] = "spawn" /\ pc[c] \notin {"idle", "setup"} /\ listener[c] \in {"none", "created"}
ChildLogSetupFailed(c) ==
    hasLogQ[c] /\ ~forwarding[c] /\ exitKind[c] = "normal"
LogSetupFailed(c) == ParentLogSetupFailed(c) \/ ChildLogSetupFailed(c)

\* What a completed call returns or raises, told from what exists without
\* log forwarding: whether the child was started, whether and how the queue
\* was read, what func() did, ttl and expected_errors.
PlainOutcome(c) ==
    IF child[c] = "none" THEN Raise(MkExc("OSError", <<"cannot start">>))
    ELSE IF got[c] = "none" THEN Raise(TimeoutErr(ttl[c]))
    ELSE IF got[c] \in {"empty", "unloadable"} THEN Raise(GetFailedErr)
    ELSE IF Returned(c)
         THEN Interpret(Dumps(SuccessEnvelope(funcres[c].obj)), expected[c]).outcome
         ELSE Interpret(Dumps(FailureEnvelope(funcres[c].obj)), expected[c]).outcome

\* C14: a failure to set up log forwarding, in the parent or in the child,
\* is not fatal: the parent goes on to launch the child with nothing
\* raised, the child goes on to run the unit of work with no envelope
\* written, and the call ends as a call without log forwarding would.
C14_LogSetupNonFatal ==
    /\ [](\A c \in Calls :
            (Done(c) /\ LogSetupFailed(c)) =>
                /\ outcome[c] = PlainOutcome(c)
                /\ (got[c] = "envelope") => funcres[c] # NoOutcome)
    /\ [][\A c \in Calls :
            /\ (pc[c] = "setup" /\ pc'[c] # "setup") =>
                   (pc'[c] = "launch" /\ outcome'[c] = NoOutcome)
            /\ (child[c] = "loghandler" /\ child'[c] \notin {"loghandler", "exited"}) =>
                   (child'[c] = "work" /\ chan'[c] = EmptyChan /\ funcres'[c] = NoOutcome)]_vars

\* the listener of the call did not start, its child could not install the
\* queue handler, and the call returned the value of the work
C14_Witness ==
    \E c \in Calls :
        /\ Done(c) /\ ParentLogSetupFailed(c) /\ ChildLogSetupFailed(c)
        /\ listener[c] = "created"
        /\ Returned(c) /\ outcome[c] = Return(funcres[c].obj)

\* the positions of run_in_subprocess before the teardown of lines 127-132
\* is over, and those after it
BeforeTeardownEnd == {"idle", "setup", "launch", "join", "teardown"}
AfterTeardown == {"alive", "terminate", "join2", "get", "done"}

\* C15: the teardown of the bridge is the step right after the bounded join;
\* the liveness check, the termination signal, the read of the queue and
\* the return or raise all come after it, with the listener no longer
\* running; and the teardown, failing or not, leaves the outcome alone.
C15_TeardownOrder ==
    /\ [](\A c \in Calls :
            /\ (joined[c] # "none" /\ pc[c] \in AfterTeardown) =>
                   (listener[c] # "running" /\ c \notin atexitReg)
            /\ (joined[c] # "none" /\ pc[c] \in BeforeTeardownEnd) =>
                   /\ pc[c] = "teardown"
                   /\ ~sigterm[c] /\ exitKind[c] # "sigterm"
                   /\ got[c] = "none" /\ outcome[c] = NoOutcome)
    /\ [][\A c \in Calls :
            /\ (pc[c] = "join" /\ pc'[c] # "join") =>
                   (pc'[c] = "teardown" /\ joined'[c] # "none")
            /\ (pc[c] = "teardown" /\ pc'[c] # "teardown") =>
                   /\ pc'[c] = "alive"
                   /\ outcome'[c] = NoOutcome /\ errlog'[c] = errlog[c]
                   /\ got'[c] = "none" /\ sigterm'[c] = sigterm[c]]_vars

\* a spawn-mode call whose teardown failed (the listener had not started)
\* found its child still alive afterwards and ended in TimeoutError
C15_Witness ==
    \E c \in Calls :
        /\ Done(c) /\ mode[c] = "spawn" /\ listener[c] = "created"
        /\ joined[c] = "expiry" /\ exitKind[c] = "sigterm"
        /\ outcome[c] = Raise(TimeoutErr(ttl[c]))


(***************************************************************************)
(* Properties of run_with_retry: delays, empty ranges, non-ordinary errors *)
(***************************************************************************)
\* C16: with max_retries >= 1, one delay of delay_seconds is taken after
\* each failed attempt k < max_retries and before attempt k + 1, none after
\* a success nor after the failure of attempt max_retries: a finished run
\* has one delay less than invocations.
C16_DelayPerFailure ==
    /\ \A i \in 1..Len(sleeps) : sleeps[i] = delaySeconds
    /\ rpc = "try" =>
           (Len(sleeps) = Len(calls) /\ attempt = Len(calls) + 1)
    /\ rpc = "sleep" =>
           /\ Len(sleeps) = Len(calls) - 1
           /\ attempt = Len(calls) /\ attempt < maxRetries
           /\ AllOrdinaryFailures(calls)
    /\ (rpc = "done" /\ maxRetries >= 1) =>
           /\ Len(sleeps) = Len(calls) - 1
           /\ AllOrdinaryFailures(SubSeq(calls, 1, Len(calls) - 1))

\* three failed attempts of three with a delay of one second: two delays
C16_Witness ==
    /\ rpc = "done" /\ maxRetries = 3 /\ delaySeconds = 1
    /\ Len(calls) = 3 /\ AllOrdinaryFailures(calls)
    /\ sleeps = <<1, 1>>

\* C18: with max_retries <= 0 the function is never invoked, no delay is
\* taken and the call raises the 'Unexpected state' error; with
\* max_retries >= 1 no run raises it.
C18_EmptyRange ==
    /\ (rpc # "idle" /\ maxRetries <= 0) =>
           /\ rpc = "done"
           /\ calls = <<>> /\ sleeps = <<>>
           /\ routcome = Raise(UnexpectedStateErr)
    /\ (rpc # "idle" /\ maxRetries >= 1) =>
           /\ routcome # Raise(UnexpectedStateErr)
           /\ rpc = "done" => calls # <<>>

\* a call with max_retries = 0 has ended in the 'Unexpected state' error
C18_Witness ==
    /\ rpc = "done" /\ maxRetries = 0 /\ calls = <<>> /\ sleeps = <<>>
    /\ routcome = Raise(UnexpectedStateErr)

\* the last invocation raised an error that is no Exception
LastIsNonOrdinary ==
    /\ calls # <<>>
    /\ calls[Len(calls)].kind = "raise"
    /\ ~IsException(calls[Len(calls)].obj)
    /\ IsBaseException(calls[Len(calls)].obj)

\* C19: an error that is a BaseException but no Exception, raised at any
\* attempt k, leaves run_with_retry at once, as it is: no delay for it and
\* no further invocation, also when k < max_retries.
C19_NonOrdinaryPropagates ==
    LastIsNonOrdinary =>
        /\ rpc = "done"
        /\ routcome = calls[Len(calls)]
        /\ Len(sleeps) = Len(calls) - 1
        /\ attempt = Len(calls)

\* SystemExit at the first of three attempts
C19_Witness ==
    /\ LastIsNonOrdinary
    /\ maxRetries = 3 /\ Len(calls) = 1 /\ sleeps = <<>>
    /\ rpc = "done" /\ routcome.obj.type = "SystemExit"


(***************************************************************************)
(* Properties of run_with_retry around run_in_subprocess                   *)
(***************************************************************************)
\* the unit of work overran its ttl in every call of run_in_subprocess made
\* so far
AlwaysOverran == \A i \in 1..Len(subs) : subs[i].started /\ subs[i].overran

\* the children started by the composed call so far
Launched ==
    Cardinality({i \in 1..Len(subs) : subs[i].started})
        + Cardinality({c \in Calls : rpc = "sub" /\ child[c] # "none"})

\* C17: run_with_retry around a run_in_subprocess whose unit of work overruns
\* its ttl every time launches exactly max_retries children, one after
\* another (a child has ended before its call ends and the next is started),
\* never two within one call of run_in_subprocess, and raises the
\* TimeoutError of the last attempt.
C17_ComposedTimeout ==
    /\ [](/\ \A i \in 1..Len(subs) : ~subs[i].alive
          /\ AlwaysOverran => Launched <= maxRetries
          /\ (rpc = "done" /\ subs # <<>> /\ AlwaysOverran) =>
                 /\ Len(subs) = maxRetries
                 /\ Launched = maxRetries
                 /\ \E c \in Calls : routcome = Raise(TimeoutErr(ttl[c])))
    /\ [][\A c \in Calls :
            /\ (child[c] # "none" /\ child'[c] = "none") => (rpc = "try" /\ ~IsAlive(c))
            /\ (child[c] \in {"flush", "exited"}) => child'[c] # "rlimit"]_vars

\* C17 for the runs in which every child was still alive at the liveness
\* check and was ended by the termination signal.
C17_KilledEachTime ==
    (rpc = "done" /\ subs # <<>> /\ \A i \in 1..Len(subs) : subs[i].killed) =>
        /\ Len(subs) = maxRetries
        /\ Launched = maxRetries
        /\ \A i \in 1..Len(subs) : ~subs[i].alive
        /\ \E c \in Calls : routcome = Raise(TimeoutErr(ttl[c]))


(***************************************************************************)
(* Properties of validate_hf_repo_id                                       *)
(***************************************************************************)
\* the positions of the separator in s
Slashes(s) == {i \in 1..Len(s) : s[i] = "/"}

\* what the repo id must be to be accepted: not empty, between 3 and
\* ModelId.MAX_REPO_ID_LENGTH characters as the error message of line 50
\* says, and two parts around one separator
WellFormed(s) ==
    /\ s # <<>>
    /\ 3 <= Len(s) /\ Len(s) <= MaxRepoIdLength
    /\ Cardinality(Slashes(s)) = 1

\* C20: validate_hf_repo_id returns (namespace, name), the parts before and
\* after the separator, exactly for the well-formed repo ids, and raises
\* ValueError for every other one.
C20_AcceptsExactly ==
    repoResult # NoRepoResult =>
        IF WellFormed(repoId)
        THEN LET i == CHOOSE k \in Slashes(repoId) : TRUE IN
             repoResult = RepoAccepted(SubSeq(repoId, 1, i - 1),
                                       SubSeq(repoId, i + 1, Len(repoId)))
        ELSE repoResult.kind = "raise" /\ repoResult.error.type = "ValueError"

\* C20 for the repo ids of more than 3 characters.
C20_LongerThanThree ==
    (repoResult # NoRepoResult /\ Len(repoId) # 3) =>
        IF WellFormed(repoId)
        THEN LET i == CHOOSE k \in Slashes(repoId) : TRUE IN
             repoResult = RepoAccepted(SubSeq(repoId, 1, i - 1),
                                       SubSeq(repoId, i + 1, Len(repoId)))
        ELSE repoResult.kind = "raise" /\ repoResult.error.type = "ValueError"

==========================================================================
